---- MODULE Spec2Model ----
(***************************************************************************)
(* A model of scripts/lib/local-cover-image.py: the cover-image pipeline   *)
(*   seed -> palette -> gradient -> shapes -> grain -> vignette -> save.   *)
(*                                                                         *)
(* Python floats (IEEE-754 binary64) are modelled exactly: a float is a    *)
(* fixed-point number with 60 fractional bits held in four limbs of 20     *)
(* bits, <<l0, l1, l2, int>>, and every arithmetic step rounds its exact   *)
(* result to 53 significant bits, ties to even, as the hardware does.      *)
(* Every float the program forms on the inputs considered here is a        *)
(* multiple of 2^-60 below 2^10, so the representation loses nothing.      *)
(***************************************************************************)
EXTENDS Integers, Sequences, FiniteSets

\* ------------------------------------------------------------------ bounds

\* Largest --width and --height tried.
MaxW == 2
MaxH == 7
\* The palette generator's consumed-draw counter saturates here ("or more").
MaxDraws == 5
\* Generator outputs tried for random(): GridN evenly spaced values in [0,1),
\* and the two largest values random() can return.
GridN == 40
\* In the whole-pipeline specification random.choice returns one of the
\* first MaxPick palette entries.
MaxPick == 2

\* ------------------------------------------------- binary64 arithmetic

B == 2^20

Pow2(n) == 2^n

RECURSIVE BitLenSmall(_)
BitLenSmall(v) == IF v = 0 THEN 0 ELSE 1 + BitLenSmall(v \div 2)

\* Carry propagation: limbs back into 0..B-1 (the top limb takes the rest).
BigNorm(n) ==
    LET t1 == n[2] + (n[1] \div B)
        t2 == n[3] + (t1 \div B)
        t3 == n[4] + (t2 \div B)
    IN  <<n[1] % B, t1 % B, t2 % B, t3>>

BigFromInt(a) == <<0, 0, 0, a>>

BigAdd(x, y) == BigNorm(<<x[1] + y[1], x[2] + y[2], x[3] + y[3], x[4] + y[4]>>)

BigSub(x, y) == BigNorm(<<x[1] - y[1], x[2] - y[2], x[3] - y[3], x[4] - y[4]>>)

BigMulSmall(x, c) == BigNorm(<<x[1] * c, x[2] * c, x[3] * c, x[4] * c>>)

BigLess(x, y) ==
    \/ x[4] < y[4]
    \/ x[4] = y[4] /\ x[3] < y[3]
    \/ x[4] = y[4] /\ x[3] = y[3] /\ x[2] < y[2]
    \/ x[4] = y[4] /\ x[3] = y[3] /\ x[2] = y[2] /\ x[1] < y[1]

BigBitLen(n) ==
    IF n[4] # 0 THEN 60 + BitLenSmall(n[4])
    ELSE IF n[3] # 0 THEN 40 + BitLenSmall(n[3])
    ELSE IF n[2] # 0 THEN 20 + BitLenSmall(n[2])
    ELSE BitLenSmall(n[1])

\* The exact value n (plus a nonzero remainder below one unit when sticky)
\* rounded to 53 significant bits, ties to even. At most 19 bits are dropped.
RoundBinary64(n, sticky) ==
    LET s    == BigBitLen(n) - 53
        p    == Pow2(s)
        rem  == n[1] % p
        half == p \div 2
        odd  == (n[1] \div p) % 2 = 1
        up   == rem > half \/ (rem = half /\ (sticky \/ odd))
    IN  IF s <= 0 THEN n
        ELSE BigNorm(<<n[1] - rem + (IF up THEN p ELSE 0), n[2], n[3], n[4]>>)

\* float(y) / float(d) for integers y >= 0, d > 0.
FDiv(y, d) ==
    LET q3 == y \div d
        r3 == y % d
        q2 == (r3 * B) \div d
        r2 == (r3 * B) % d
        q1 == (r2 * B) \div d
        r1 == (r2 * B) % d
        q0 == (r1 * B) \div d
        r0 == (r1 * B) % d
    IN  RoundBinary64(<<q0, q1, q2, q3>>, r0 # 0)

FAdd(x, y) == RoundBinary64(BigAdd(x, y), FALSE)

FSub(x, y) == RoundBinary64(BigSub(x, y), FALSE)

\* float(a) * x for an integer a >= 0.
FMulInt(a, x) == RoundBinary64(BigMulSmall(x, a), FALSE)

\* int(x) for x >= 0: truncation.
PyInt(x) == x[4]

\* round(x) for x >= 0: to the nearest integer, ties to even.
PyRound(x) ==
    LET above == x[3] > B \div 2 \/ (x[3] = B \div 2 /\ (x[2] > 0 \/ x[1] > 0))
        tie   == x[3] = B \div 2 /\ x[2] = 0 /\ x[1] = 0
    IN  x[4] + (IF above \/ (tie /\ x[4] % 2 = 1) THEN 1 ELSE 0)

\* ------------------------------------------------------ pure functions

\* The slugs tried; the seed of the last is within 1337 of 2^32.
Slugs == {"hello-world", "test-123", "post-324609"}

\* hashlib.md5(slug.encode("utf-8")).hexdigest(), tabulated for the slugs
\* tried: md5 is the interpreter's, the table is its output.
Md5Hex(s) ==
    CASE s = "hello-world" ->
           <<"2","0","9","5","3","1","2","1","8","9","7","5","3","d","e","6",
             "a","d","4","7","d","f","e","2","0","c","b","e","9","7","e","c">>
      [] s = "test-123" ->
           <<"c","a","6","d","0","0","e","3","3","e","d","f","f","0","e","9",
             "c","b","3","7","8","2","d","3","1","1","8","2","d","e","3","3">>
      [] s = "post-324609" ->
           <<"f","f","f","f","f","b","9","9","3","4","5","f","3","2","d","e",
             "f","2","a","d","0","e","b","9","e","9","4","b","4","4","c","0">>

HexDigit(ch) ==
    CASE ch = "0" -> 0 [] ch = "1" -> 1 [] ch = "2" -> 2 [] ch = "3" -> 3
      [] ch = "4" -> 4 [] ch = "5" -> 5 [] ch = "6" -> 6 [] ch = "7" -> 7
      [] ch = "8" -> 8 [] ch = "9" -> 9 [] ch = "a" -> 10 [] ch = "b" -> 11
      [] ch = "c" -> 12 [] ch = "d" -> 13 [] ch = "e" -> 14 [] ch = "f" -> 15

\* int(digits, 16) for four hex digits.
Hex4(d) ==
    ((HexDigit(d[1]) * 16 + HexDigit(d[2])) * 16 + HexDigit(d[3])) * 16 + HexDigit(d[4])

\* int(digest[:8], 16). A 32-bit unsigned seed does not fit TLC's signed
\* 32-bit integers: it is held as its two 16-bit halves, hi * 65536 + lo.
\* Python integers do not wrap, so hi may pass 65535 once an offset is added.
_seed_from_slug(s) ==
    LET d == Md5Hex(s)
    IN  [hi |-> Hex4(SubSeq(d, 1, 4)), lo |-> Hex4(SubSeq(d, 5, 8))]

\* seed + n for a small n >= 0.
SeedPlus(sd, n) ==
    [hi |-> sd.hi + ((sd.lo + n) \div 65536), lo |-> (sd.lo + n) % 65536]

\* int(round(a * (1.0 - t) + b * t))
_lerp(a, b, t) ==
    PyRound(FAdd(FMulInt(a, FSub(BigFromInt(1), t)), FMulInt(b, t)))

\* The three channels interpolated one by one.
_lerp_rgb(p, q, t) == <<_lerp(p[1], q[1], t), _lerp(p[2], q[2], t), _lerp(p[3], q[3], t)>>

\* The palette of _pick_palette, in its order.
palette ==
    << <<6, 10, 25>>, <<15, 23, 42>>, <<12, 74, 110>>, <<2, 132, 199>>,
       <<16, 185, 129>>, <<99, 102, 241>>, <<168, 85, 247>>, <<244, 63, 94>>,
       <<245, 158, 11>> >>

White == <<255, 255, 255>>

\* random.Random.uniform(a, b): a + (b - a) * random(), for integers
\* 0 <= a <= b and u the value random() returned.
Uniform(a, b, u) == FAdd(BigFromInt(a), FMulInt(b - a, u))

\* The values random() is made to return: it returns k / 2^53 for some
\* 0 <= k < 2^53, here GridN evenly spaced ones and the two largest.
RandomMax == <<B - 128, B - 1, B - 1, 0>>

RandomBelowMax == <<B - 256, B - 1, B - 1, 0>>

RandomGrid == {<<0, 0, m * (B \div GridN), 0>> : m \in 0..(GridN - 1)}

RandomValues == RandomGrid \cup {RandomBelowMax, RandomMax}

\* The literal 0.6.
AccentThreshold == FDiv(6, 10)

\* ------------------------------------------------------------- rasters

NoSeed == [hi |-> -1, lo |-> -1]

NoColor == <<>>

\* A PIL image: its mode, its size and, while the model follows them, its
\* pixels px[y][x] (<<>> once a blur or a blend of the imaging library has
\* produced them: their values are the library's). hist lists the stages
\* whose output the raster is, oldest first.
NoImage == [mode |-> "none", w |-> 0, h |-> 0, px |-> <<>>, hist |-> <<>>]

\* What an imaging call that raises ValueError leaves in place of a raster.
BadImage == [mode |-> "ValueError", w |-> 0, h |-> 0, px |-> <<>>, hist |-> <<>>]

\* Image.new(mode, (w, h), fill)
ImageNew(mode, w, h, fill) ==
    [mode |-> mode, w |-> w, h |-> h,
     px |-> [y \in 0..(h - 1) |-> [x \in 0..(w - 1) |-> fill]], hist |-> <<>>]

\* Image.filter(ImageFilter.GaussianBlur(r)): same mode and size.
ImageFilter(im) == [im EXCEPT !.px = <<>>]

\* Image.convert(mode): same size.
ImageConvert(im, mode) ==
    IF im.mode = "ValueError" THEN im ELSE [im EXCEPT !.mode = mode, !.px = <<>>]

\* Image.alpha_composite(im1, im2): both RGBA and of one size, or ValueError.
AlphaComposite(im1, im2) ==
    IF im1.mode = "RGBA" /\ im2.mode = "RGBA" /\ im1.w = im2.w /\ im1.h = im2.h
    THEN [im1 EXCEPT !.px = <<>>]
    ELSE BadImage

\* Image.merge("RGB", (a, b, c)): three single-band images of one size.
ImageMerge(mode, band) ==
    IF band.mode = "L" THEN [band EXCEPT !.mode = mode, !.px = <<>>] ELSE BadImage

\* Image.blend(im1, im2, alpha): one mode and one size, or ValueError.
ImageBlend(im1, im2) ==
    IF im1.mode = im2.mode /\ im1.w = im2.w /\ im1.h = im2.h /\ im1.mode # "ValueError"
    THEN [im1 EXCEPT !.px = <<>>]
    ELSE BadImage

\* Image.composite(image1, image2, mask): a copy of image2 with image1 pasted
\* through mask (paste converts image1 to the copy's mode); one size, or
\* ValueError.
ImageComposite(im1, im2, mask) ==
    IF im1.w = im2.w /\ im1.h = im2.h /\ mask.w = im2.w /\ mask.h = im2.h
       /\ im2.mode # "ValueError"
    THEN [im2 EXCEPT !.px = <<>>]
    ELSE BadImage

\* ImageDraw painting a shape on the image: same mode and size.
Painted(im) == [im EXCEPT !.px = <<>>]

\* The raster as the output of one more stage.
Stamp(im, stage) ==
    IF im.mode = "ValueError" THEN im ELSE [im EXCEPT !.hist = Append(@, stage)]

\* ImageDraw.line((x0, y, x1, y), fill=col): the pixels x0..x1 of row y, both
\* ends included, as far as they lie inside the image.
DrawHLine(im, x0, y, x1, col) ==
    [im EXCEPT !.px[y] = [x \in 0..(im.w - 1) |-> IF x0 <= x /\ x <= x1 THEN col ELSE @[x]]]

\* ------------------------------------------------------------ gradient

\* What a division by zero raises.
DivError == <<"ZeroDivisionError">>

\* y / d on floats.
PyDiv(y, d) == IF d = 0 THEN DivError ELSE FDiv(y, d)

\* t without the guard for h = 1: a faulty variant of GradientT for the h = 1 case.
GradientTNoGuard(y, h) == PyDiv(y, h - 1)

\* t = y / h: a faulty variant of GradientT for the boundary rows.
GradientTOverH(y, h) == IF h > 1 THEN PyDiv(y, h) ELSE BigFromInt(0)

\* t = y / (h - 1) if h > 1 else 0.0
GradientT(y, h) == IF h > 1 THEN PyDiv(y, h - 1) ELSE BigFromInt(0)

\* The loop of _make_gradient from row y on; a raise leaves BadImage with
\* the exception as its mode.
RECURSIVE GradientLoop(_, _, _, _)
GradientLoop(im, y, p, q) ==
    IF y >= im.h THEN im
    ELSE LET t == GradientT(y, im.h)
         IN  IF t = DivError
             THEN [BadImage EXCEPT !.mode = "ZeroDivisionError"]
             ELSE GradientLoop(DrawHLine(im, 0, y, im.w, _lerp_rgb(p, q, t)), y + 1, p, q)

\* Image.new("RGB", (w, h), c1), then the loop over its rows.
_make_gradient(w, h, p, q) == GradientLoop(ImageNew("RGB", w, h, p), 0, p, q)

\* --------------------------------------------------------------- state

VARIABLES
    args,        \* the command line: [slug, width, height]
    pc,          \* where main is: a stage, or a place inside one
    seed,        \* main's seed
    c1, c2, accent,   \* the palette colours (NoColor until drawn)
    rngPalette,  \* _pick_palette's generator: [seed, pos], pos the draws taken
    rngShapes,   \* _add_shapes's generator
    rngGrain,    \* _add_grain's generator
    img,         \* main's img
    layer,       \* _add_shapes's RGBA layer, while that stage runs
    circles,     \* circles drawn on the layer so far
    lines,       \* line segments drawn on the layer so far
    shape,       \* _add_shapes's locals base, alpha and width
    order,       \* the stages started so far, in order
    failedAt,    \* the stage an exception escaped from, or "none"
    output       \* what the run has put at the output path

vars == <<args, pc, seed, c1, c2, accent, rngPalette, rngShapes, rngGrain, img,
          layer, circles, lines, shape, order, failedAt, output>>

NumCircles == 22

NumLines == 16

GrainOffset == 1337

\* The calls of main, in its order.
Stages == <<"seed", "palette", "gradient", "shapes", "grain", "vignette", "save">>

RasterStages == <<"gradient", "shapes", "grain", "vignette">>

\* main with _add_grain called before _add_shapes: a faulty variant of StageAfter.
StageAfterSwapped(stage) ==
    CASE stage = "seed" -> "palette"
      [] stage = "palette" -> "gradient"
      [] stage = "gradient" -> "grain"
      [] stage = "grain" -> "shapes"
      [] stage = "shapes" -> "vignette"
      [] stage = "vignette" -> "save"
      [] stage = "save" -> "done"

\* The statement main runs after a stage returns.
StageAfter(stage) ==
    CASE stage = "seed" -> "palette"
      [] stage = "palette" -> "gradient"
      [] stage = "gradient" -> "shapes"
      [] stage = "shapes" -> "grain"
      [] stage = "grain" -> "vignette"
      [] stage = "vignette" -> "save"
      [] stage = "save" -> "done"

\* The stage a place of main belongs to.
StageOf(place) ==
    CASE place = "palette_loop" -> "palette"
      [] place \in {"circles", "circle_alpha", "lines", "line_alpha", "blur"} -> "shapes"
      [] OTHER -> place

\* An exception swallowed, main going on to write the image: a faulty variant of
\* OnException.
OnExceptionContinue(place) == "save"

\* main catches nothing: an exception raised anywhere ends the process.
OnException(place) == "aborted"

NoRng == [seed |-> NoSeed, pos |-> 0]

\* Nothing written by this run.
NoOutput == [format |-> "none", mode |-> "none", w |-> 0, h |-> 0, hist |-> <<>>]

\* A file cut short by a failed write.
PartialOutput == [NoOutput EXCEPT !.format = "partial"]

\* random.Random(s)
Random(s) == [seed |-> s, pos |-> 0]

\* n more draws taken from a generator.
Draws(rng, n) == [rng EXCEPT !.pos = @ + n]

\* The same with the count saturating at MaxDraws ("MaxDraws or more"): the
\* resample loop has no bound of its own.
DrawsSat(rng, n) == [rng EXCEPT !.pos = IF @ + n > MaxDraws THEN MaxDraws ELSE @ + n]

\* The locals of _add_shapes that reach its draw calls: kind is the shape
\* alpha was drawn for, fill is the colour built last for a draw call, base
\* (line 81) or the accent of col (line 92); topAlpha and
\* topWidth tell whether the draw behind alpha and width was the largest
\* value random() returns.
NoShape == [kind |-> "none", fill |-> NoColor, alpha |-> 0, width |-> 0,
            topAlpha |-> FALSE, topWidth |-> FALSE]

AllPicks == 1..Len(palette)

FewPicks == 1..MaxPick

FewRandomValues == {<<0, 0, 0, 0>>, RandomMax}

Idle(a, s) ==
    /\ args = a
    /\ seed = s
    /\ c1 = NoColor /\ c2 = NoColor /\ accent = NoColor
    /\ rngPalette = NoRng /\ rngShapes = NoRng /\ rngGrain = NoRng
    /\ img = NoImage /\ layer = NoImage
    /\ circles = 0 /\ lines = 0 /\ shape = NoShape
    /\ order = <<>> /\ failedAt = "none" /\ output = NoOutput

\* main after argument parsing.
Init ==
    /\ pc = "seed"
    /\ \E s \in Slugs, w \in {1, MaxW}, h \in {1, MaxH} :
           Idle([slug |-> s, width |-> w, height |-> h], NoSeed)

\* An exception escapes the running stage: main has no handler.
Abort(place) ==
    /\ pc' = OnException(place)
    /\ failedAt' = StageOf(place)

\* seed = _seed_from_slug(args.slug)
SeedStage ==
    /\ pc = "seed"
    /\ seed' = _seed_from_slug(args.slug)
    /\ order' = Append(order, "seed")
    /\ pc' = StageAfter("seed")
    /\ UNCHANGED <<args, c1, c2, accent, rngPalette, rngShapes, rngGrain, img,
                   layer, circles, lines, shape, failedAt, output>>

\* ---------------------------------------------------------- _pick_palette

\* The loop with its condition inverted: a faulty variant of LoopCond.
LoopCondInverted(p, q) == q # p

\* while c2 == c1
LoopCond(p, q) == q = p

\* The draw of the loop body thrown away: a faulty variant of Resampled.
ResampledDropped(old, drawn) == old

\* c2 = rng.choice(palette)
Resampled(old, drawn) == drawn

\* rng = random.Random(seed); c1 = rng.choice(palette); c2 = rng.choice(palette)
PaletteStart(picks) ==
    /\ pc = "palette"
    /\ \E i \in picks, j \in picks :
           /\ c1' = palette[i]
           /\ c2' = palette[j]
    /\ rngPalette' = DrawsSat(Random(seed), 2)
    /\ order' = Append(order, "palette")
    /\ pc' = "palette_loop"
    /\ UNCHANGED <<args, seed, accent, rngShapes, rngGrain, img, layer, circles,
                   lines, shape, failedAt, output>>

\* One turn of the loop: c2 drawn again.
PaletteResample(picks) ==
    /\ pc = "palette_loop"
    /\ LoopCond(c1, c2)
    /\ \E j \in picks : c2' = Resampled(c2, palette[j])
    /\ rngPalette' = DrawsSat(rngPalette, 1)
    /\ UNCHANGED <<args, pc, seed, c1, accent, rngShapes, rngGrain, img, layer,
                   circles, lines, shape, order, failedAt, output>>

\* A turn of the loop whose draw is not c1.
PaletteResampleDistinct(picks) == PaletteResample(picks) /\ c2' # c1

\* The loop ends: accent = rng.choice(palette); return c1, c2, accent
PaletteReturn(picks) ==
    /\ pc = "palette_loop"
    /\ ~LoopCond(c1, c2)
    /\ \E k \in picks : accent' = palette[k]
    /\ rngPalette' = DrawsSat(rngPalette, 1)
    /\ pc' = StageAfter("palette")
    /\ UNCHANGED <<args, seed, c1, c2, rngShapes, rngGrain, img, layer, circles,
                   lines, shape, order, failedAt, output>>

\* --------------------------------------------------------- _make_gradient

\* img = _make_gradient(args.width, args.height, c1, c2)
GradientStage ==
    /\ pc = "gradient"
    /\ order' = Append(order, "gradient")
    /\ LET im == _make_gradient(args.width, args.height, c1, c2)
       IN  IF im.mode = "RGB"
           THEN /\ img' = Stamp(im, "gradient")
                /\ pc' = StageAfter("gradient")
                /\ UNCHANGED failedAt
           ELSE /\ Abort("gradient")
                /\ UNCHANGED img
    /\ UNCHANGED <<args, seed, c1, c2, accent, rngPalette, rngShapes, rngGrain,
                   layer, circles, lines, shape, output>>

\* ------------------------------------------------------------ _add_shapes

CircleAlphaLo == 18

CircleAlphaHi == 55

LineWidthLo == 2

LineWidthHi == 6

LineAlphaLo == 10

LineAlphaHi == 26

\* randint-like draw, both ends included with equal weight: a faulty variant of
\* UniformInt.
UniformIntInclusive(a, b, u) == PyInt(Uniform(a, b + 1, u))

\* int(rng.uniform(a, b))
UniformInt(a, b, u) == PyInt(Uniform(a, b, u))

\* accent if rng.random() < 0.6 else (255, 255, 255)
CircleBase(u, acc) == IF BigLess(u, AccentThreshold) THEN acc ELSE White

\* A generator shared with _pick_palette instead of a fresh one: a faulty variant
\* of ShapesGenerator.
ShapesGeneratorShared(sd, used) == used

\* rng = random.Random(seed) of _add_shapes
ShapesGenerator(sd, used) == Random(sd)

\* rng = random.Random(seed + 1337) of _add_grain
GrainGenerator(sd) == Random(SeedPlus(sd, GrainOffset))

\* _add_shapes returning the composite without converting it back to RGB:
\* a faulty variant of ShapesResult.
ShapesResultRgba(im, lay) == AlphaComposite(ImageConvert(im, "RGBA"), ImageFilter(lay))

\* layer.filter(GaussianBlur(14));
\* Image.alpha_composite(img.convert("RGBA"), layer).convert("RGB")
ShapesResult(im, lay) ==
    ImageConvert(AlphaComposite(ImageConvert(im, "RGBA"), ImageFilter(lay)), "RGB")

\* w, h = img.size; layer = Image.new("RGBA", ...); rng = random.Random(seed)
ShapesBegin ==
    /\ pc = "shapes"
    /\ order' = Append(order, "shapes")
    /\ layer' = ImageNew("RGBA", img.w, img.h, <<0, 0, 0, 0>>)
    /\ rngShapes' = ShapesGenerator(seed, rngPalette)
    /\ circles' = 0
    /\ lines' = 0
    /\ pc' = "circles"
    /\ UNCHANGED <<args, seed, c1, c2, accent, rngPalette, rngGrain, img, shape,
                   failedAt, output>>

\* A turn of the first loop, lines 78-81: x, y, r and the base colour are
\* drawn in this order. The three coordinates take their draws; their values
\* only place the ellipse.
CircleDraws(values) ==
    /\ pc = "circles"
    /\ circles < NumCircles
    /\ \E ub \in values : shape' = [shape EXCEPT !.fill = CircleBase(ub, accent)]
    /\ rngShapes' = Draws(rngShapes, 4)
    /\ pc' = "circle_alpha"
    /\ UNCHANGED <<args, seed, c1, c2, accent, rngPalette, rngGrain, img, layer,
                   circles, lines, order, failedAt, output>>

\* The turn ends, lines 82-83: the alpha is drawn and the ellipse painted.
CirclePaint(values) ==
    /\ pc = "circle_alpha"
    /\ \E ua \in values :
           shape' = [shape EXCEPT !.kind = "circle",
                                  !.alpha = UniformInt(CircleAlphaLo, CircleAlphaHi, ua),
                                  !.topAlpha = (ua = RandomMax)]
    /\ rngShapes' = Draws(rngShapes, 1)
    /\ circles' = circles + 1
    /\ layer' = Painted(layer)
    /\ pc' = IF circles + 1 = NumCircles THEN "lines" ELSE "circles"
    /\ UNCHANGED <<args, seed, c1, c2, accent, rngPalette, rngGrain, img, lines,
                   order, failedAt, output>>

\* A turn of the second loop, lines 86-90: x1, y1, x2, y2 and the width are
\* drawn in this order.
LineDraws(values) ==
    /\ pc = "lines"
    /\ lines < NumLines
    /\ \E uw \in values :
           shape' = [shape EXCEPT !.width = UniformInt(LineWidthLo, LineWidthHi, uw),
                                  !.topWidth = (uw = RandomMax)]
    /\ rngShapes' = Draws(rngShapes, 5)
    /\ pc' = "line_alpha"
    /\ UNCHANGED <<args, seed, c1, c2, accent, rngPalette, rngGrain, img, layer,
                   circles, lines, order, failedAt, output>>

\* The turn ends, lines 91-93: the alpha is drawn and the line painted in
\* the accent colour.
LinePaint(values) ==
    /\ pc = "line_alpha"
    /\ \E ua \in values :
           shape' = [shape EXCEPT !.kind = "line", !.fill = accent,
                                  !.alpha = UniformInt(LineAlphaLo, LineAlphaHi, ua),
                                  !.topAlpha = (ua = RandomMax)]
    /\ rngShapes' = Draws(rngShapes, 1)
    /\ lines' = lines + 1
    /\ layer' = Painted(layer)
    /\ pc' = IF lines + 1 = NumLines THEN "blur" ELSE "lines"
    /\ UNCHANGED <<args, seed, c1, c2, accent, rngPalette, rngGrain, img, circles,
                   order, failedAt, output>>

\* The layer is blurred, composited over the image, and the result returned;
\* the layer does not outlive the return.
ShapesEnd ==
    /\ pc = "blur"
    /\ LET im == ShapesResult(img, layer)
       IN  IF im.mode = "ValueError"
           THEN /\ Abort("blur")
                /\ UNCHANGED <<img, layer>>
           ELSE /\ img' = Stamp(im, "shapes")
                /\ layer' = NoImage
                /\ pc' = StageAfter("shapes")
                /\ UNCHANGED failedAt
    /\ UNCHANGED <<args, seed, c1, c2, accent, rngPalette, rngShapes, rngGrain,
                   circles, lines, shape, order, output>>

\* ----------------------------------------------- _add_grain, _add_vignette

\* The noise image blurred, scaled, merged to RGB and blended into the image.
GrainResult(im) ==
    ImageBlend(im, ImageMerge("RGB", ImageFilter(ImageNew("L", im.w, im.h, 0))))

\* img = _add_grain(img, seed): one randint draw for every pixel.
_add_grain ==
    /\ pc = "grain"
    /\ order' = Append(order, "grain")
    /\ rngGrain' = Draws(GrainGenerator(seed), img.w * img.h)
    /\ LET im == GrainResult(img)
       IN  IF im.mode = "ValueError"
           THEN /\ Abort("grain")
                /\ UNCHANGED img
           ELSE /\ img' = Stamp(im, "grain")
                /\ pc' = StageAfter("grain")
                /\ UNCHANGED failedAt
    /\ UNCHANGED <<args, seed, c1, c2, accent, rngPalette, rngShapes, layer,
                   circles, lines, shape, output>>

\* Image.composite(dark, img, vignette) with the blurred ring mask.
VignetteResult(im) ==
    ImageComposite(ImageNew("RGB", im.w, im.h, <<0, 0, 0>>), im,
                   ImageFilter(ImageNew("L", im.w, im.h, 0)))

\* img = _add_vignette(img)
_add_vignette ==
    /\ pc = "vignette"
    /\ order' = Append(order, "vignette")
    /\ LET im == VignetteResult(img)
       IN  IF im.mode = "ValueError"
           THEN /\ Abort("vignette")
                /\ UNCHANGED img
           ELSE /\ img' = Stamp(im, "vignette")
                /\ pc' = StageAfter("vignette")
                /\ UNCHANGED failedAt
    /\ UNCHANGED <<args, seed, c1, c2, accent, rngPalette, rngShapes, rngGrain,
                   layer, circles, lines, shape, output>>

\* ------------------------------------------------------------------ main

\* img.save(args.output, format="PNG", optimize=True)
SaveStage ==
    /\ pc = "save"
    /\ order' = Append(order, "save")
    /\ output' = [format |-> "PNG", mode |-> img.mode, w |-> img.w, h |-> img.h,
                  hist |-> img.hist]
    /\ pc' = StageAfter("save")
    /\ UNCHANGED <<args, seed, c1, c2, accent, rngPalette, rngShapes, rngGrain,
                   img, layer, circles, lines, shape, failedAt>>

\* The write fails (the path is not writable, the disk is full): the file is
\* absent or cut short, as the imaging library leaves it.
SaveFails ==
    /\ pc = "save"
    /\ order' = Append(order, "save")
    /\ output' \in {NoOutput, PartialOutput}
    /\ Abort("save")
    /\ UNCHANGED <<args, seed, c1, c2, accent, rngPalette, rngShapes, rngGrain,
                   img, layer, circles, lines, shape>>

RaisePlaces ==
    {"seed", "palette", "palette_loop", "gradient", "shapes", "circles",
     "circle_alpha", "lines", "line_alpha", "blur", "grain", "vignette"}

\* A statement of a stage raises (an encoding error, MemoryError, an error of
\* the imaging library): nothing in lines 121-129 catches it. What the stage
\* did before the raise stays done: the generator it made, the draws it took
\* and the locals it bound. A raise inside a call of the generator (choice,
\* uniform, random, randint) may come after the generator advanced and before
\* the statement binds its local.
Raise(picks, values) ==
    /\ pc \in RaisePlaces
    /\ Abort(pc)
    /\ order' = IF StageOf(pc) \in {order[n] : n \in 1..Len(order)}
                THEN order ELSE Append(order, StageOf(pc))
    /\ \/ \* before the first statement of the place has any effect
          UNCHANGED <<c1, c2, accent, rngPalette, rngShapes, rngGrain, layer, shape>>
       \/ \* _pick_palette after line 35, or inside the choice of line 36
          /\ pc = "palette"
          /\ \E n \in 0..1 : rngPalette' = Draws(Random(seed), n)
          /\ UNCHANGED <<c1, c2, accent, rngShapes, rngGrain, layer, shape>>
       \/ \* _pick_palette after line 36, or inside the choice of line 37
          /\ pc = "palette"
          /\ \E i \in picks : c1' = palette[i]
          /\ \E n \in 1..2 : rngPalette' = Draws(Random(seed), n)
          /\ UNCHANGED <<c2, accent, rngShapes, rngGrain, layer, shape>>
       \/ \* _pick_palette inside the choice of line 39 or of line 40
          /\ pc = "palette_loop"
          /\ rngPalette' = DrawsSat(rngPalette, 1)
          /\ UNCHANGED <<c1, c2, accent, rngShapes, rngGrain, layer, shape>>
       \/ \* _pick_palette after line 40: the accent bound, the return not done
          /\ pc = "palette_loop"
          /\ ~LoopCond(c1, c2)
          /\ \E k \in picks : accent' = palette[k]
          /\ rngPalette' = DrawsSat(rngPalette, 1)
          /\ UNCHANGED <<c1, c2, rngShapes, rngGrain, layer, shape>>
       \/ \* _add_shapes after line 73
          /\ pc = "shapes"
          /\ layer' = ImageNew("RGBA", img.w, img.h, <<0, 0, 0, 0>>)
          /\ UNCHANGED <<c1, c2, accent, rngPalette, rngShapes, rngGrain, shape>>
       \/ \* _add_shapes in lines 78-81, or in lines 86-90: some of the draws
          \* taken, base (line 81) or width (line 90) not bound
          /\ pc \in {"circles", "lines"}
          /\ \E k \in 1..(IF pc = "circles" THEN 4 ELSE 5) :
                 rngShapes' = Draws(rngShapes, k)
          /\ UNCHANGED <<c1, c2, accent, rngPalette, rngGrain, layer, shape>>
       \/ \* _add_shapes inside the uniform of line 82 or of line 91: the draw
          \* taken, alpha not bound
          /\ pc \in {"circle_alpha", "line_alpha"}
          /\ rngShapes' = Draws(rngShapes, 1)
          /\ UNCHANGED <<c1, c2, accent, rngPalette, rngGrain, layer, shape>>
       \/ \* _add_shapes after line 82: alpha bound, the ellipse not painted
          /\ pc = "circle_alpha"
          /\ \E ua \in values :
                 shape' = [shape EXCEPT !.kind = "circle",
                                        !.alpha = UniformInt(CircleAlphaLo, CircleAlphaHi, ua),
                                        !.topAlpha = (ua = RandomMax)]
          /\ rngShapes' = Draws(rngShapes, 1)
          /\ UNCHANGED <<c1, c2, accent, rngPalette, rngGrain, layer>>
       \/ \* _add_shapes after line 91: alpha bound, col not built
          /\ pc = "line_alpha"
          /\ \E ua \in values :
                 shape' = [shape EXCEPT !.kind = "line",
                                        !.alpha = UniformInt(LineAlphaLo, LineAlphaHi, ua),
                                        !.topAlpha = (ua = RandomMax)]
          /\ rngShapes' = Draws(rngShapes, 1)
          /\ UNCHANGED <<c1, c2, accent, rngPalette, rngGrain, layer>>
       \/ \* _add_shapes after line 92: col built from the accent, the line not
          \* painted
          /\ pc = "line_alpha"
          /\ \E ua \in values :
                 shape' = [shape EXCEPT !.kind = "line", !.fill = accent,
                                        !.alpha = UniformInt(LineAlphaLo, LineAlphaHi, ua),
                                        !.topAlpha = (ua = RandomMax)]
          /\ rngShapes' = Draws(rngShapes, 1)
          /\ UNCHANGED <<c1, c2, accent, rngPalette, rngGrain, layer>>
       \/ \* _add_grain after line 101 and any number of the draws of line 106
          /\ pc = "grain"
          /\ \E k \in 0..(img.w * img.h) :
                 rngGrain' = Draws(GrainGenerator(seed), k)
          /\ UNCHANGED <<c1, c2, accent, rngPalette, rngShapes, layer, shape>>
    /\ UNCHANGED <<args, seed, img, circles, lines, output>>

Next ==
    \/ SeedStage
    \/ PaletteStart(FewPicks)
    \/ PaletteResample(FewPicks)
    \/ PaletteReturn(FewPicks)
    \/ GradientStage
    \/ ShapesBegin
    \/ CircleDraws(FewRandomValues)
    \/ CirclePaint(FewRandomValues)
    \/ LineDraws(FewRandomValues)
    \/ LinePaint(FewRandomValues)
    \/ ShapesEnd
    \/ _add_grain
    \/ _add_vignette
    \/ SaveStage
    \/ SaveFails
    \/ Raise(FewPicks, FewRandomValues)

Spec == Init /\ [][Next]_vars

\* ------------------------------------- the functions called on their own

PaletteColors == {palette[i] : i \in AllPicks}

\* _pick_palette(seed) called with the seed of any slug.
PaletteInit ==
    /\ pc = "palette"
    /\ \E s \in Slugs :
           Idle([slug |-> s, width |-> MaxW, height |-> MaxH], _seed_from_slug(s))

PaletteNext ==
    \/ PaletteStart(AllPicks)
    \/ PaletteResample(AllPicks)
    \/ PaletteReturn(AllPicks)

PaletteSpec == PaletteInit /\ [][PaletteNext]_vars

\* The interpreter keeps running the function, and the generator does not
\* return c1 on every draw for ever.
PaletteFairSpec ==
    /\ PaletteInit
    /\ [][PaletteNext]_vars
    /\ WF_vars(PaletteNext)
    /\ WF_vars(PaletteResampleDistinct(AllPicks))

\* _make_gradient(w, h, c1, c2) called with any size and any two palette
\* colours.
GradientInit ==
    /\ pc = "gradient"
    /\ \E w \in 1..MaxW, h \in 1..MaxH, p \in PaletteColors, q \in PaletteColors :
           /\ args = [slug |-> "hello-world", width |-> w, height |-> h]
           /\ c1 = p
           /\ c2 = q
    /\ seed = _seed_from_slug("hello-world")
    /\ accent = NoColor
    /\ rngPalette = NoRng /\ rngShapes = NoRng /\ rngGrain = NoRng
    /\ img = NoImage /\ layer = NoImage
    /\ circles = 0 /\ lines = 0 /\ shape = NoShape
    /\ order = <<>> /\ failedAt = "none" /\ output = NoOutput

GradientNext == GradientStage

GradientSpec == GradientInit /\ [][GradientNext]_vars

\* _add_shapes(img, seed, accent) called on a gradient, with every value
\* of RandomValues for the draws behind the integer parameters.
ShapesInit ==
    /\ pc = "shapes"
    /\ \E k \in FewPicks : accent = palette[k]
    /\ args = [slug |-> "hello-world", width |-> MaxW, height |-> MaxH]
    /\ seed = _seed_from_slug("hello-world")
    /\ c1 = palette[1]
    /\ c2 = palette[2]
    /\ img = Stamp(_make_gradient(MaxW, MaxH, palette[1], palette[2]), "gradient")
    /\ rngPalette = NoRng /\ rngShapes = NoRng /\ rngGrain = NoRng
    /\ layer = NoImage
    /\ circles = 0 /\ lines = 0 /\ shape = NoShape
    /\ order = <<>> /\ failedAt = "none" /\ output = NoOutput

ShapesNext ==
    \/ ShapesBegin
    \/ CircleDraws(RandomValues)
    \/ CirclePaint(RandomValues)
    \/ LineDraws(RandomValues)
    \/ LinePaint(RandomValues)
    \/ ShapesEnd

ShapesSpec == ShapesInit /\ [][ShapesNext]_vars

\* ==================================================================
\* The claims.
\* ==================================================================

\* _pick_palette has returned: accent is assigned by the statement before its
\* return.
PaletteReturned == accent # NoColor /\ failedAt # "palette"

\* C1: whatever the generator returns for the palette draws, once
\* _pick_palette has returned (c1, c2, accent), all three are palette
\* colours and the two background colours differ: c1 # c2.
C1_DistinctBackgrounds ==
    PaletteReturned =>
        /\ c1 \in PaletteColors /\ c2 \in PaletteColors /\ accent \in PaletteColors
        /\ c1 # c2

\* _pick_palette returned after resampling c2, with an accent equal to c1.
C1_Witness ==
    /\ PaletteReturned
    /\ rngPalette.pos > 3
    /\ accent = c1
    /\ c1 # c2

\* C8: under the fairness assumption that the generator does not return c1
\* on every draw for ever, the resample loop exits and _pick_palette returns.
C8_PaletteTerminates == <>PaletteReturned

\* _pick_palette returned after as many turns of the loop as the draw counter
\* can tell apart: the number of turns has no bound of its own.
C8_Witness ==
    /\ PaletteReturned
    /\ rngPalette.pos = MaxDraws
    /\ MaxDraws >= 5

\* _make_gradient has returned its raster.
GradientDone == img.hist = <<"gradient">>

\* C5: for w >= 1 and h > 1 the raster _make_gradient returns is w x h, its
\* top row equals c1 and its bottom row equals c2 on all three channels, and
\* every row y is one colour: round(c1 * (1 - t) + c2 * t) with t = y / (h - 1),
\* an integer nearest to the exact interpolation on every channel.
C5_GradientRows ==
    (GradientDone /\ args.height > 1) =>
        LET h == args.height
            w == args.width
            \* v is an integer nearest to num / den (either one on a tie)
            Nearest(v, num, den) ==
                2 * v * den - 2 * num <= den /\ 2 * num - 2 * v * den <= den
        IN  /\ img.mode = "RGB" /\ img.w = w /\ img.h = h
            /\ \A x \in 0..(w - 1) : img.px[0][x] = c1 /\ img.px[h - 1][x] = c2
            /\ \A y \in 0..(h - 1) : \A x \in 0..(w - 1) :
                   /\ img.px[y][x] = img.px[y][0]
                   /\ img.px[y][x] = _lerp_rgb(c1, c2, FDiv(y, h - 1))
                   /\ \A ch \in 1..3 :
                          Nearest(img.px[y][x][ch],
                                  c1[ch] * (h - 1 - y) + c2[ch] * y, h - 1)

\* A gradient of the largest size between two different colours whose second
\* row is neither of them.
C5_Witness ==
    /\ GradientDone
    /\ args.width = MaxW /\ args.height = MaxH /\ MaxH > 2
    /\ c1 # c2
    /\ img.px[0][MaxW - 1] = c1
    /\ img.px[MaxH - 1][MaxW - 1] = c2
    /\ img.px[1][0] \notin {c1, c2}

\* C6: with height = 1 the gradient stage raises no division error (t is 0.0
\* for the only row), and the single row it produces equals c1.
C6_HeightOne ==
    (args.height = 1 /\ pc # "gradient") =>
        /\ failedAt = "none"
        /\ GradientDone
        /\ img.h = 1 /\ img.w = args.width
        /\ \A x \in 0..(args.width - 1) : img.px[0][x] = c1

\* A gradient of height 1 and the largest width, between two different
\* colours.
C6_Witness ==
    /\ args.height = 1 /\ args.width = MaxW
    /\ c1 # c2
    /\ GradientDone
    /\ img.px[0][MaxW - 1] = c1

ShapePlaces == {"circles", "circle_alpha", "lines", "line_alpha", "blur"}

\* C7: for positive width and height, the raster main holds after each of
\* gradient, shapes, grain and vignette is RGB and exactly width x height, so
\* is the image written; the RGBA layer exists only inside the shape stage.
C7_RasterShape ==
    /\ img # NoImage =>
           img.mode = "RGB" /\ img.w = args.width /\ img.h = args.height
    /\ output.format = "PNG" =>
           output.mode = "RGB" /\ output.w = args.width /\ output.h = args.height
    /\ layer # NoImage =>
           /\ pc \in ShapePlaces \/ failedAt = "shapes"
           /\ layer.mode = "RGBA" /\ layer.w = args.width /\ layer.h = args.height
    /\ pc \in {"grain", "vignette", "save", "done"} => layer = NoImage

\* An image of the largest size written after all four raster stages.
C7_Witness ==
    /\ pc = "done"
    /\ args.width = MaxW /\ args.height = MaxH
    /\ output.format = "PNG" /\ output.mode = "RGB"
    /\ output.w = MaxW /\ output.h = MaxH
    /\ img.hist = RasterStages

\* C3: in every run the stages start in the order seed, palette, gradient,
\* shapes, grain, vignette, save, each once; every raster stage works on the
\* raster the stage before it produced; the image written is the vignette's.
C3_StagesInOrder ==
    /\ Len(order) <= Len(Stages)
    /\ order = SubSeq(Stages, 1, Len(order))
    /\ Len(img.hist) <= Len(RasterStages)
    /\ img.hist = SubSeq(RasterStages, 1, Len(img.hist))
    /\ \A k \in 1..Len(RasterStages) :
           pc = RasterStages[k] => Len(img.hist) = k - 1 /\ Len(order) = k + 1
    /\ pc = "save" => img.hist = RasterStages
    /\ pc = "done" => order = Stages /\ output.hist = RasterStages

\* A run that went through all seven stages.
C3_Witness ==
    /\ pc = "done"
    /\ order = Stages
    /\ img.hist = RasterStages
    /\ circles = NumCircles /\ lines = NumLines

\* C4: if seed, palette, gradient, shapes, grain or vignette fails, the run
\* is over and has written nothing; an image is at the output path only when
\* all four raster stages have completed; no stage is started twice.
C4_AllOrNothing ==
    /\ failedAt \notin {"none", "save"} => output = NoOutput
    /\ failedAt # "none" => pc = "aborted" /\ order[Len(order)] = failedAt
    /\ output # NoOutput =>
           /\ img.hist = RasterStages
           /\ order = Stages
    /\ output.format = "PNG" => failedAt = "none" /\ output.hist = RasterStages
    /\ Cardinality({order[n] : n \in 1..Len(order)}) = Len(order)

\* The vignette stage failed after three raster stages: nothing is written.
C4_Witness ==
    /\ pc = "aborted"
    /\ failedAt = "vignette"
    /\ img.hist = <<"gradient", "shapes", "grain">>
    /\ output = NoOutput

\* Draws the shape stage has taken beyond its completed turns: 4 before a
\* circle's alpha, 5 before a line's; any part of a turn (a circle's 5 draws
\* less the paint, a line's 6) when an exception stopped it.
ShapesPartial ==
    CASE pc = "circle_alpha" -> {4}
      [] pc = "line_alpha" -> {5}
      [] failedAt = "shapes" -> 0..6
      [] OTHER -> {0}

\* C10: each randomised stage draws from a generator of its own, made when
\* the stage starts: palette and shapes from the seed, grain from seed + 1337.
\* However many draws the palette loop took, the shape stage's generator is
\* at the draw its own turns account for (5 a circle, 6 a line, one generator
\* through all 22 circles and 16 lines), and the grain stage's at one draw a
\* pixel (a stage an exception stopped: at most that).
C10_GeneratorsIndependent ==
    /\ rngPalette # NoRng =>
           /\ rngPalette.seed = seed
           /\ rngPalette.pos >= 2 \/ failedAt = "palette"
    /\ rngShapes # NoRng =>
           /\ rngShapes.seed = seed
           /\ rngShapes.pos - 5 * circles - 6 * lines \in ShapesPartial
    /\ rngGrain # NoRng =>
           /\ rngGrain.seed = SeedPlus(seed, GrainOffset)
           /\ rngGrain.seed # seed
           /\ rngGrain.pos \in 0..(args.width * args.height)
           /\ rngGrain.pos = args.width * args.height \/ failedAt = "grain"
    /\ pc \in {"grain", "vignette", "save", "done"} =>
           rngShapes.pos = 5 * NumCircles + 6 * NumLines
    /\ pc \in {"vignette", "save", "done"} => rngGrain # NoRng

\* A finished run whose palette stage resampled c2 at least twice, on the
\* slug whose seed + 1337 passes 32 bits.
C10_Witness ==
    /\ pc = "done"
    /\ rngPalette.pos = MaxDraws /\ MaxDraws >= 5
    /\ rngShapes = [seed |-> seed, pos |-> 5 * NumCircles + 6 * NumLines]
    /\ rngGrain.pos = MaxW * MaxH
    /\ rngGrain.seed.hi = 65536

\* alpha holds a circle's alpha, a line's alpha.
CircleAlphaSet == shape.kind = "circle"

LineAlphaSet == shape.kind = "line"

\* width is bound: line 90 has assigned it (no width it assigns is the 0 of
\* NoShape, see LineWidths).
LineWidthSet == shape.width # NoShape.width

\* The integers int(rng.uniform(a, b)) takes over the generator values tried.
CircleAlphas == {UniformInt(CircleAlphaLo, CircleAlphaHi, u) : u \in RandomValues}

LineWidths == {UniformInt(LineWidthLo, LineWidthHi, u) : u \in RandomValues}

LineAlphas == {UniformInt(LineAlphaLo, LineAlphaHi, u) : u \in RandomValues}

\* C9 as stated: a circle's alpha is an integer of [18, 55], a line's width
\* an integer of [2, 6] and its alpha an integer of [10, 26], the upper end
\* of each interval included. uniform does not decrease as the draw grows, so
\* an upper end that occurs at all is what the largest draw gives.
C9_AsStated ==
    /\ CircleAlphaSet =>
           /\ shape.alpha \in CircleAlphaLo..CircleAlphaHi
           /\ shape.topAlpha => shape.alpha = CircleAlphaHi
    /\ LineWidthSet =>
           /\ shape.width \in LineWidthLo..LineWidthHi
           /\ shape.topWidth => shape.width = LineWidthHi
    /\ LineAlphaSet =>
           /\ shape.alpha \in LineAlphaLo..LineAlphaHi
           /\ shape.topAlpha => shape.alpha = LineAlphaHi

\* C9 amended: a circle's alpha is an integer of [18, 54], each of which
\* occurs and 55 never; a line's width is an integer of [2, 6] and its alpha
\* an integer of [10, 26], each of which occurs, the upper ends 6 and 26 for
\* the largest value of random() alone (where the float sum rounds up to b).
\* Every circle has an alpha and every line a width before it is painted.
C9_ShapeParameters ==
    /\ CircleAlphas = CircleAlphaLo..(CircleAlphaHi - 1)
    /\ LineWidths = LineWidthLo..LineWidthHi
    /\ LineAlphas = LineAlphaLo..LineAlphaHi
    /\ CircleAlphaSet =>
           /\ shape.alpha \in CircleAlphaLo..(CircleAlphaHi - 1)
           /\ shape.topAlpha => shape.alpha = CircleAlphaHi - 1
    /\ circles > 0 => CircleAlphaSet \/ LineAlphaSet
    /\ (pc = "line_alpha" \/ lines > 0) => LineWidthSet
    /\ LineWidthSet =>
           /\ shape.width \in LineWidthLo..LineWidthHi
           /\ shape.topWidth <=> shape.width = LineWidthHi
    /\ LineAlphaSet =>
           /\ shape.alpha \in LineAlphaLo..LineAlphaHi
           /\ shape.topAlpha <=> shape.alpha = LineAlphaHi

\* The sixteenth line painted with the width 6 and the alpha 26, after 22
\* circles.
C9_Witness ==
    /\ pc = "blur"
    /\ circles = NumCircles /\ lines = NumLines
    /\ shape.kind = "line"
    /\ shape.width = LineWidthHi /\ shape.topWidth
    /\ shape.alpha = LineAlphaHi /\ shape.topAlpha

====
